---- MODULE Spec2Model ----
(***************************************************************************)
(* Model of src/buffer_cache/alt/page.cc: the page cache (page_cache_t),   *)
(* the per-block coordinator (current_page_t) with its acquirer queue and  *)
(* the handoff walk pulse_pulsables, the acquisition handle                *)
(* (current_page_acq_t) and the page (page_t) with its asynchronous load.  *)
(***************************************************************************)
EXTENDS Integers, Sequences, FiniteSets, TLC

\* ------------------------------------------------------------------ bounds
MaxAcqs == 3
MaxCurrentPages == 2
MaxPages == 3
MaxBlockId == 1

\* --------------------------------------------------------------- constants
NULL == 0
NULL_BLOCK_ID == -1
NoToken == -1
NoBuf == -1
FreshBuf == -2

AcqIds == 1..MaxAcqs
CurrentPageIds == 1..MaxCurrentPages
PageIds == 1..MaxPages
BlockIds == 0..MaxBlockId
alt_access_t == {"read", "write"}

VARIABLES
    current_pages_,   \* page_cache_t::current_pages_ : vector of current_page_t* (index = block id + 1)
    free_list_,       \* page_cache_t::free_list_ : the block ids the allocator can still hand out
    drainer_,         \* page_cache_t::drainer_ : [draining, locks]
    cache_,           \* lifetime of the page_cache_t: "alive", "draining", "destroyed"
    cps,              \* the current_page_t objects
    pages,            \* the page_t objects
    loads,            \* the load_with_block_id coroutine of each page
    acqs,             \* the current_page_acq_t objects
    assoc,            \* history: block id -> set of current_page_t instances returned for it
    last              \* history: the call that returned last

vars == <<current_pages_, free_list_, drainer_, cache_, cps, pages, loads, acqs, assoc, last>>

\* The blocks the serializer's index maps to a block token (block 0 is
\* written before the cache starts); index_read of any other block finds none.
DurableBlocks == {0}

\* ----------------------------------------------------------- object images
FreeCurrentPage ==
    [state |-> "free", block_id_ |-> NULL_BLOCK_ID, page_cache_ |-> FALSE,
     page_ |-> NULL, acquirers_ |-> <<>>]

FreePage ==
    [state |-> "free", buf_ |-> NoBuf, buf_size_ |-> "undefined",
     block_token_ |-> NoToken, snapshot_refcount_ |-> 0, destroy_ptr_ |-> NULL]

NoLoad ==
    [pc |-> "none", block_id |-> NULL_BLOCK_ID, page_destroyed |-> FALSE, lock |-> FALSE]

FreeAcq ==
    [state |-> "free", access_ |-> "read", declared_snapshotted_ |-> FALSE,
     current_page_ |-> NULL, snapshotted_page_ |-> NULL,
     read_cond_ |-> FALSE, write_cond_ |-> FALSE]

\* A returned call: the operation, the acquisition and current page it was
\* called on, what it returned (a page, or the block id for the cache's
\* calls), and what held of the acquisition when the call was made: its
\* access mode, its place in the queue (0: in none), its read_cond_.
Call(op, acq, cp, ret, access, pos, readable) ==
    [op |-> op, acq |-> acq, cp |-> cp, ret |-> ret,
     access |-> access, pos |-> pos, readable |-> readable]

CacheCall(op, cp, ret) == Call(op, NULL, cp, ret, "none", 0, FALSE)

NoCall == CacheCall("none", NULL, NULL)

\* The element of a one-element set.
TheOne(S) == CHOOSE x \in S : TRUE

\* The objects an operation works on, as one value. ok turns FALSE when an
\* allocation would exceed MaxPages.
Heap ==
    [cps |-> cps, pages |-> pages, loads |-> loads, acqs |-> acqs,
     drainer_ |-> drainer_, ok |-> TRUE]

Min(S) == CHOOSE x \in S : \A y \in S : x <= y

FreeIn(f) == {i \in DOMAIN f : f[i].state = "free"}

\* ------------------------------------------------- intrusive_list_t of acqs
Index(q, a) ==
    IF \E i \in 1..Len(q) : q[i] = a
    THEN CHOOSE i \in 1..Len(q) : q[i] = a
    ELSE 0

list_prev(q, a) ==
    LET i == Index(q, a) IN IF i <= 1 THEN NULL ELSE q[i - 1]

list_next(q, a) ==
    LET i == Index(q, a) IN IF i = 0 \/ i = Len(q) THEN NULL ELSE q[i + 1]

list_remove(q, a) == SelectSeq(q, LAMBDA x : x # a)

\* ---------------------------------------------------------------- page_t
\* page_t::add_snapshotter
add_snapshotter(h, p) ==
    [h EXCEPT !.pages[p].snapshot_refcount_ = @ + 1]

\* page_t::remove_snapshotter (the rassert on the count is stated by the
\* properties, not assumed here)
remove_snapshotter(h, p) ==
    [h EXCEPT !.pages[p].snapshot_refcount_ = @ - 1]

\* page_t::has_snapshot_references
has_snapshot_references(h, p) == h.pages[p].snapshot_refcount_ > 0

\* Mutant: the load does not take the lock on the cache's drainer.
load_with_block_id_start_no_lock(h, p, block_id) ==
    [h EXCEPT !.pages[p].destroy_ptr_ = p,
              !.loads[p] = [pc |-> "io", block_id |-> block_id,
                            page_destroyed |-> FALSE, lock |-> FALSE]]

\* page_t::load_with_block_id up to its first suspension: it runs inside the
\* page_t constructor (spawn_now_dangerously), publishes the destruction
\* flag, takes the drainer lock and leaves for the serializer thread.
load_with_block_id_start(h, p, block_id) ==
    [h EXCEPT !.pages[p].destroy_ptr_ = p,
              !.loads[p] = [pc |-> "io", block_id |-> block_id,
                            page_destroyed |-> FALSE, lock |-> TRUE],
              !.drainer_.locks = @ + 1]

\* page_t::page_t(block_id_t, page_cache_t *)
page_t_from_block_id(h, p, block_id) ==
    load_with_block_id_start(
        [h EXCEPT !.pages[p] = [FreePage EXCEPT !.state = "live"]],
        p, block_id)

\* page_t::page_t(block_size_t, scoped_malloc_t<ser_buffer_t>)
page_t_from_buf(h, p, buf) ==
    [h EXCEPT !.pages[p] = [FreePage EXCEPT !.state = "live", !.buf_ = buf,
                                            !.buf_size_ = "block_size"]]

\* page_t::make_copy: a new page_t holding a copy of the buffer
make_copy(h, p, new) ==
    [h EXCEPT !.pages[new] = [FreePage EXCEPT !.state = "live",
                                              !.buf_ = h.pages[p].buf_,
                                              !.buf_size_ = h.pages[p].buf_size_]]

\* --------------------------------------------------------- current_page_t
\* Mutant: the page is constructed on every call.
convert_from_serializer_always(h, cp) ==
    IF FreeIn(h.pages) = {} THEN [h EXCEPT !.ok = FALSE]
    ELSE LET p == Min(FreeIn(h.pages))
             h1 == page_t_from_block_id(h, p, h.cps[cp].block_id_)
         IN [h1 EXCEPT !.cps[cp].page_ = p,
                       !.cps[cp].page_cache_ = FALSE,
                       !.cps[cp].block_id_ = NULL_BLOCK_ID]

\* current_page_t::convert_from_serializer_if_necessary
convert_from_serializer_if_necessary(h, cp) ==
    IF h.cps[cp].page_ # NULL THEN h
    ELSE IF FreeIn(h.pages) = {} THEN [h EXCEPT !.ok = FALSE]
    ELSE LET p == Min(FreeIn(h.pages))
             h1 == page_t_from_block_id(h, p, h.cps[cp].block_id_)
         IN [h1 EXCEPT !.cps[cp].page_ = p,
                       !.cps[cp].page_cache_ = FALSE,
                       !.cps[cp].block_id_ = NULL_BLOCK_ID]

\* current_page_t::the_page_for_read: the heap after the call; the page it
\* returns is cps[cp].page_ of that heap.
the_page_for_read(h, cp) == convert_from_serializer_if_necessary(h, cp)

\* Mutant: the page is handed out for writing without the copy.
the_page_for_write_nocopy(h, cp) == convert_from_serializer_if_necessary(h, cp)

\* current_page_t::the_page_for_write
the_page_for_write(h, cp) ==
    LET h1 == convert_from_serializer_if_necessary(h, cp)
        p == h1.cps[cp].page_
    IN IF ~h1.ok THEN h1
       ELSE IF has_snapshot_references(h1, p)
            THEN IF FreeIn(h1.pages) = {} THEN [h1 EXCEPT !.ok = FALSE]
                 ELSE LET new == Min(FreeIn(h1.pages))
                      IN [make_copy(h1, p, new) EXCEPT !.cps[cp].page_ = new]
            ELSE h1

\* Mutant: the snapshotter is pinned to the page but stays in the queue.
kick_out_snapshotter_stays(h, cp, cur) ==
    LET h1 == the_page_for_read(h, cp)
        p == h1.cps[cp].page_
    IN IF ~h1.ok THEN h1
       ELSE add_snapshotter([h1 EXCEPT !.acqs[cur].snapshotted_page_ = p,
                                       !.acqs[cur].current_page_ = NULL],
                            p)

\* pulse_pulsables, the snapshotter branch of the loop: cur is kicked out
\* of the queue and pinned to the page the_page_for_read returns.
kick_out_snapshotter(h, cp, cur) ==
    LET h1 == the_page_for_read(h, cp)
        p == h1.cps[cp].page_
    IN IF ~h1.ok THEN h1
       ELSE [add_snapshotter([h1 EXCEPT !.acqs[cur].snapshotted_page_ = p,
                                        !.acqs[cur].current_page_ = NULL],
                             p)
             EXCEPT !.cps[cp].acquirers_ = list_remove(@, cur)]

\* pulse_pulsables, the write-acquirer branch of the loop: cur gets write
\* access when nothing precedes it.
pulse_write_acquirer(h, cp, cur) ==
    IF list_prev(h.cps[cp].acquirers_, cur) = NULL
    THEN [h EXCEPT !.acqs[cur].write_cond_ = TRUE]
    ELSE h

\* The loop of pulse_pulsables, from cur toward the tail. (The heap and the
\* node it starts from are computed once, as h and cur.)
RECURSIVE pulse_walk(_, _, _)
pulse_walk(h0, cp, cur0) ==
    TheOne({
        IF cur = NULL \/ ~h.ok THEN h
        ELSE
            LET h1 == [h EXCEPT !.acqs[cur].read_cond_ = TRUE]
            IN IF h1.acqs[cur].access_ = "read"
               THEN LET next == list_next(h1.cps[cp].acquirers_, cur)
                    IN IF h1.acqs[cur].declared_snapshotted_
                       THEN pulse_walk(kick_out_snapshotter(h1, cp, cur), cp, next)
                       ELSE pulse_walk(h1, cp, next)
               ELSE pulse_write_acquirer(h1, cp, cur)
        : h \in {h0}, cur \in {cur0} })

\* Mutant: the already-pulsed check does not look at the access mode, so a
\* write-acquirer that is already readable is never looked at again.
pulse_pulsables_skip_pulsed(h, cp, acq) ==
    LET prev == list_prev(h.cps[cp].acquirers_, acq)
    IN IF ~(prev = NULL \/ (h.acqs[prev].access_ = "read" /\ h.acqs[prev].read_cond_))
       THEN h
       ELSE IF h.acqs[acq].read_cond_
            THEN h
            ELSE pulse_walk(h, cp, acq)

\* Mutant: the check of the preceding node is missing.
pulse_pulsables_no_prev_check(h, cp, acq) ==
    IF h.acqs[acq].access_ = "read" /\ h.acqs[acq].read_cond_
    THEN h
    ELSE pulse_walk(h, cp, acq)

\* Mutant: the check for an already-pulsed read-acquirer is missing.
pulse_pulsables_repulse(h, cp, acq) ==
    LET prev == list_prev(h.cps[cp].acquirers_, acq)
    IN IF ~(prev = NULL \/ (h.acqs[prev].access_ = "read" /\ h.acqs[prev].read_cond_))
       THEN h
       ELSE pulse_walk(h, cp, acq)

\* Mutant: the check of the preceding node does not look at its access mode.
pulse_pulsables_prev_any_access(h, cp, acq) ==
    LET prev == list_prev(h.cps[cp].acquirers_, acq)
    IN IF ~(prev = NULL \/ h.acqs[prev].read_cond_)
       THEN h
       ELSE IF h.acqs[acq].access_ = "read" /\ h.acqs[acq].read_cond_
            THEN h
            ELSE pulse_walk(h, cp, acq)

\* current_page_t::pulse_pulsables (the heap and the node it is called with
\* are computed once, as h and acq)
pulse_pulsables(h0, cp, acq0) ==
    TheOne({
        LET prev == list_prev(h.cps[cp].acquirers_, acq)
        IN IF ~(prev = NULL \/ (h.acqs[prev].access_ = "read" /\ h.acqs[prev].read_cond_))
           THEN h
           ELSE IF h.acqs[acq].access_ = "read" /\ h.acqs[acq].read_cond_
                THEN h
                ELSE pulse_walk(h, cp, acq)
        : h \in {h0}, acq \in {acq0} })

\* Mutant: the new acquirer is pushed to the front of the queue.
add_acquirer_push_front(h, cp, acq) ==
    pulse_pulsables([h EXCEPT !.cps[cp].acquirers_ = <<acq>> \o @], cp, acq)

\* current_page_t::add_acquirer
add_acquirer(h, cp, acq) ==
    pulse_pulsables([h EXCEPT !.cps[cp].acquirers_ = Append(@, acq)], cp, acq)

\* Mutant: the successor of the removed node is not pulsed.
remove_acquirer_no_pulse(h, cp, acq) ==
    [h EXCEPT !.cps[cp].acquirers_ = list_remove(@, acq)]

\* current_page_t::remove_acquirer
remove_acquirer(h, cp, acq) ==
    LET next == list_next(h.cps[cp].acquirers_, acq)
        h1 == [h EXCEPT !.cps[cp].acquirers_ = list_remove(@, acq)]
    IN IF next # NULL THEN pulse_pulsables(h1, cp, next) ELSE h1

\* ----------------------------------------------------- current_page_acq_t
\* current_page_acq_t::current_page_acq_t. declared_snapshotted_ is not in
\* the initializer list, so the object starts with whatever value `declared`
\* the memory holds.
current_page_acq_t(h, a, cp, access, declared) ==
    add_acquirer(
        [h EXCEPT !.acqs[a] = [FreeAcq EXCEPT !.state = "live",
                                              !.access_ = access,
                                              !.declared_snapshotted_ = declared,
                                              !.current_page_ = cp]],
        cp, a)

\* Mutant: the destructor does not release the snapshotted page.
current_page_acq_t_destroy_no_unpin(h, a) ==
    LET cp == h.acqs[a].current_page_
        h1 == IF cp # NULL THEN remove_acquirer(h, cp, a) ELSE h
    IN [h1 EXCEPT !.acqs[a] = FreeAcq]

\* current_page_acq_t::~current_page_acq_t
current_page_acq_t_destroy(h, a) ==
    LET cp == h.acqs[a].current_page_
        p == h.acqs[a].snapshotted_page_
        h1 == IF cp # NULL THEN remove_acquirer(h, cp, a) ELSE h
        h2 == IF p # NULL THEN remove_snapshotter(h1, p) ELSE h1
    IN [h2 EXCEPT !.acqs[a] = FreeAcq]

\* Mutant: a redeclaration takes the declaration back.
declare_snapshotted_toggle(h, a) ==
    IF ~h.acqs[a].declared_snapshotted_
    THEN pulse_pulsables([h EXCEPT !.acqs[a].declared_snapshotted_ = TRUE],
                         h.acqs[a].current_page_, a)
    ELSE [h EXCEPT !.acqs[a].declared_snapshotted_ = FALSE]

\* current_page_acq_t::declare_snapshotted
declare_snapshotted(h, a) ==
    IF ~h.acqs[a].declared_snapshotted_
    THEN pulse_pulsables([h EXCEPT !.acqs[a].declared_snapshotted_ = TRUE],
                         h.acqs[a].current_page_, a)
    ELSE h

\* ------------------------------------------------------------------- Init
\* The heap before any object is constructed.
EmptyHeap ==
    [cps |-> [c \in CurrentPageIds |-> FreeCurrentPage],
     pages |-> [p \in PageIds |-> FreePage],
     loads |-> [p \in PageIds |-> NoLoad],
     acqs |-> [a \in AcqIds |-> FreeAcq],
     drainer_ |-> [draining |-> FALSE, locks |-> 0],
     ok |-> TRUE]

\* page_cache_t::page_cache_t: an empty cache
Init ==
    /\ current_pages_ = <<>>
    /\ free_list_ = BlockIds \ DurableBlocks
    /\ drainer_ = EmptyHeap.drainer_
    /\ cache_ = "alive"
    /\ cps = EmptyHeap.cps
    /\ pages = EmptyHeap.pages
    /\ loads = EmptyHeap.loads
    /\ acqs = EmptyHeap.acqs
    /\ assoc = [b \in BlockIds |-> {}]
    /\ last = NoCall

\* Writes the objects of heap h, computed once, back to the variables.
Store(h) ==
    \E r \in {h} :
        /\ r.ok
        /\ cps' = r.cps
        /\ pages' = r.pages
        /\ loads' = r.loads
        /\ acqs' = r.acqs
        /\ drainer_' = r.drainer_

\* A current_page_t the cache registered (created by page_for_block_id).
Registered(cp) == \E i \in 1..Len(current_pages_) : current_pages_[i] = cp

\* The callers use a current_page_t only while it and the cache it came
\* from live.
Usable(cp) ==
    /\ cps[cp].state = "live"
    /\ cache_ = "alive"

\* serializer_t::index_read
index_read(block_id) == IF block_id \in DurableBlocks THEN block_id ELSE NoToken

\* Mutant: the load installs its result without looking at page_destroyed.
load_with_block_id_resume_no_check(h, p) ==
    LET block_token == index_read(h.loads[p].block_id)
    IN [h EXCEPT !.loads[p].pc = "done", !.loads[p].lock = FALSE,
                 !.drainer_.locks = @ - 1,
                 !.pages[p].buf_size_ = "token_size",
                 !.pages[p].buf_ = block_token,
                 !.pages[p].block_token_ = block_token]

\* Mutant: the test of page_destroyed is inverted.
load_with_block_id_resume_inverted(h, p) ==
    LET block_token == index_read(h.loads[p].block_id)
        h1 == [h EXCEPT !.loads[p].pc = "done", !.loads[p].lock = FALSE,
                        !.drainer_.locks = @ - 1]
    IN IF ~h.loads[p].page_destroyed
       THEN h1
       ELSE [h1 EXCEPT !.pages[p].buf_size_ = "token_size",
                       !.pages[p].buf_ = block_token,
                       !.pages[p].block_token_ = block_token]

\* page_t::load_with_block_id from its resumption after the serializer I/O
\* to its return (the drainer lock is released on return).
load_with_block_id_resume(h, p) ==
    LET block_token == index_read(h.loads[p].block_id)
        h1 == [h EXCEPT !.loads[p].pc = "done", !.loads[p].lock = FALSE,
                        !.drainer_.locks = @ - 1]
    IN IF h.loads[p].page_destroyed
       THEN h1
       ELSE [h1 EXCEPT !.pages[p].buf_size_ = "token_size",
                       !.pages[p].buf_ = block_token,
                       !.pages[p].block_token_ = block_token]

DestroyedPage == [FreePage EXCEPT !.state = "destroyed"]

DestroyedCurrentPage == [FreeCurrentPage EXCEPT !.state = "destroyed"]

\* page_t::~page_t: sets the flag destroy_ptr_ points to and frees the page
page_t_destroy(h, p) ==
    LET d == h.pages[p].destroy_ptr_
        h1 == IF d # NULL THEN [h EXCEPT !.loads[d].page_destroyed = TRUE] ELSE h
    IN [h1 EXCEPT !.pages[p] = DestroyedPage]

\* current_page_t::~current_page_t, with the page it owns
current_page_t_destroy(h, cp) ==
    LET p == h.cps[cp].page_
        h1 == IF p # NULL THEN page_t_destroy(h, p) ELSE h
    IN [h1 EXCEPT !.cps[cp] = DestroyedCurrentPage]

\* current_page_t::current_page_t(block_id_t, page_cache_t *)
current_page_t_from_block_id(block_id) ==
    [FreeCurrentPage EXCEPT !.state = "live", !.block_id_ = block_id,
                            !.page_cache_ = TRUE]

\* current_page_t::current_page_t(block_size_t, scoped_malloc_t<ser_buffer_t>)
current_page_t_from_buf(h, cp, p) ==
    [page_t_from_buf(h, p, FreshBuf) EXCEPT
        !.cps[cp] = [FreeCurrentPage EXCEPT !.state = "live", !.page_ = p]]

\* std::vector::resize(n, NULL) when the vector is shorter than n
resize(v, n) ==
    IF Len(v) < n THEN v \o [i \in 1..(n - Len(v)) |-> NULL] ELSE v

\* Live acquisitions pinned to page p as snapshotters.
Snapshotters(p) ==
    {a \in AcqIds : acqs[a].state = "live" /\ acqs[a].snapshotted_page_ = p}

\* The record of a call on acquisition a, taken when the call is made.
AcqCall(op, a, ret) ==
    LET cp == acqs[a].current_page_
    IN Call(op, a, cp, ret, acqs[a].access_,
            IF cp = NULL THEN 0 ELSE Index(cps[cp].acquirers_, a),
            acqs[a].read_cond_)

\* ---------------------------------------------------------------- actions
\* page_cache_t::page_for_block_id
page_for_block_id(block_id) ==
    /\ cache_ = "alive"
    /\ block_id \notin free_list_
    /\ LET v == IF Len(current_pages_) <= block_id
                THEN resize(current_pages_, block_id + 1)
                ELSE current_pages_
       IN IF v[block_id + 1] = NULL
          THEN /\ FreeIn(cps) # {}
               /\ LET cp == Min(FreeIn(cps))
                  IN /\ current_pages_' = [v EXCEPT ![block_id + 1] = cp]
                     /\ cps' = [cps EXCEPT ![cp] = current_page_t_from_block_id(block_id)]
                     /\ assoc' = [assoc EXCEPT ![block_id] = @ \cup {cp}]
                     /\ last' = CacheCall("page_for_block_id", cp, block_id)
          ELSE /\ current_pages_' = v
               /\ cps' = cps
               /\ assoc' = [assoc EXCEPT ![block_id] = @ \cup {v[block_id + 1]}]
               /\ last' = CacheCall("page_for_block_id", v[block_id + 1], block_id)
    /\ UNCHANGED <<free_list_, drainer_, cache_, pages, loads, acqs>>

\* page_cache_t::page_for_new_block_id
page_for_new_block_id ==
    /\ cache_ = "alive"
    /\ FreeIn(cps) # {}
    /\ FreeIn(pages) # {}
    /\ \E block_id \in free_list_ :
        LET cp == Min(FreeIn(cps))
            p == Min(FreeIn(pages))
        IN /\ free_list_' = free_list_ \ {block_id}
           /\ Store(current_page_t_from_buf(Heap, cp, p))
           /\ assoc' = [assoc EXCEPT ![block_id] = @ \cup {cp}]
           /\ last' = CacheCall("page_for_new_block_id", cp, block_id)
    /\ UNCHANGED <<current_pages_, cache_>>

\* The values the uninitialized declared_snapshotted_ of a new acquisition
\* can hold. The member is read only for read access (declare_snapshotted
\* asserts it, pulse_pulsables tests it in its read branch), so a writer's
\* value is kept FALSE.
UninitializedFlag(access) == IF access = "read" THEN BOOLEAN ELSE {FALSE}

\* A caller constructs a current_page_acq_t on cp.
acq_construct(cp, access) ==
    /\ Usable(cp)
    /\ FreeIn(acqs) # {}
    /\ \E declared \in UninitializedFlag(access) :
        LET a == Min(FreeIn(acqs))
        IN /\ Store(current_page_acq_t(Heap, a, cp, access, declared))
           /\ last' = Call("acq_construct", a, cp, NULL, access,
                           Len(cps[cp].acquirers_) + 1, FALSE)
    /\ UNCHANGED <<current_pages_, free_list_, cache_, assoc>>

\* A caller destroys the current_page_acq_t a.
acq_destroy(a) ==
    /\ acqs[a].state = "live"
    /\ Store(current_page_acq_t_destroy(Heap, a))
    /\ last' = AcqCall("acq_destroy", a, NULL)
    /\ UNCHANGED <<current_pages_, free_list_, cache_, assoc>>

\* A caller calls a.declare_snapshotted().
acq_declare_snapshotted(a) ==
    /\ acqs[a].state = "live"
    /\ acqs[a].access_ = "read"
    /\ acqs[a].declared_snapshotted_ \/ acqs[a].current_page_ # NULL
    /\ Store(declare_snapshotted(Heap, a))
    /\ last' = AcqCall("declare_snapshotted", a, NULL)
    /\ UNCHANGED <<current_pages_, free_list_, cache_, assoc>>

\* current_page_acq_t::page_for_read, once read_cond_ is pulsed
page_for_read(a) ==
    /\ acqs[a].state = "live"
    /\ acqs[a].snapshotted_page_ # NULL \/ acqs[a].current_page_ # NULL
    /\ acqs[a].read_cond_
    /\ IF acqs[a].snapshotted_page_ # NULL
       THEN /\ Store(Heap)
            /\ last' = AcqCall("page_for_read", a, acqs[a].snapshotted_page_)
       ELSE LET cp == acqs[a].current_page_
                h == the_page_for_read(Heap, cp)
            IN /\ Store(h)
               /\ last' = AcqCall("page_for_read", a, h.cps[cp].page_)
    /\ UNCHANGED <<current_pages_, free_list_, cache_, assoc>>

\* current_page_acq_t::page_for_write, once write_cond_ is pulsed
page_for_write(a) ==
    /\ acqs[a].state = "live"
    /\ acqs[a].access_ = "write"
    /\ acqs[a].current_page_ # NULL
    /\ acqs[a].write_cond_
    /\ LET cp == acqs[a].current_page_
           h == the_page_for_write(Heap, cp)
       IN /\ Store(h)
          /\ last' = AcqCall("page_for_write", a, h.cps[cp].page_)
    /\ UNCHANGED <<current_pages_, free_list_, cache_, assoc>>

\* The load of page p resumes from the serializer I/O and runs to its end.
load_resume(p) ==
    /\ loads[p].pc = "io"
    /\ index_read(loads[p].block_id) # NoToken
    /\ Store(load_with_block_id_resume(Heap, p))
    /\ last' = CacheCall("load_resume", NULL, p)
    /\ UNCHANGED <<current_pages_, free_list_, cache_, assoc>>

\* The owner of a current_page_t deletes it (all its acquisitions released).
current_page_delete(cp) ==
    /\ cps[cp].state = "live"
    /\ Registered(cp) => cache_ = "alive"
    /\ cps[cp].acquirers_ = <<>>
    /\ cps[cp].page_ # NULL => Snapshotters(cps[cp].page_) = {}
    /\ Store(current_page_t_destroy(Heap, cp))
    /\ last' = CacheCall("current_page_delete", cp, NULL)
    /\ UNCHANGED <<current_pages_, free_list_, cache_, assoc>>

RegisteredPages == {cp \in CurrentPageIds : Registered(cp)}

\* page_cache_t::~page_cache_t up to the wait in drainer_.reset(). The
\* callers have released every acquisition before they destroy the cache,
\* and have deleted none of the pages the cache owns.
page_cache_destroy_begin ==
    /\ cache_ = "alive"
    /\ \A a \in AcqIds : acqs[a].state = "free"
    /\ \A cp \in RegisteredPages : cps[cp].state = "live"
    /\ cache_' = "draining"
    /\ drainer_' = [drainer_ EXCEPT !.draining = TRUE]
    /\ last' = CacheCall("page_cache_destroy_begin", NULL, NULL)
    /\ UNCHANGED <<current_pages_, free_list_, cps, pages, loads, acqs, assoc>>

RECURSIVE destroy_all(_, _)
destroy_all(h, S) ==
    IF S = {} THEN h
    ELSE LET cp == Min(S) IN destroy_all(current_page_t_destroy(h, cp), S \ {cp})

\* auto_drainer_t::~auto_drainer_t returns once every lock_t on it is released.
drained(d) == d.locks = 0

\* page_cache_t::~page_cache_t after drainer_.reset() returned: every lock
\* on the drainer is released, the registered current pages are deleted.
page_cache_destroy_finish ==
    /\ cache_ = "draining"
    /\ drained(drainer_)
    /\ Store(destroy_all(Heap, RegisteredPages))
    /\ current_pages_' = <<>>
    /\ cache_' = "destroyed"
    /\ last' = CacheCall("page_cache_destroy_finish", NULL, NULL)
    /\ UNCHANGED <<free_list_, assoc>>

Next ==
    \/ \E b \in BlockIds : page_for_block_id(b)
    \/ page_for_new_block_id
    \/ \E cp \in CurrentPageIds, access \in alt_access_t : acq_construct(cp, access)
    \/ \E a \in AcqIds : acq_destroy(a)
    \/ \E a \in AcqIds : acq_declare_snapshotted(a)
    \/ \E a \in AcqIds : page_for_read(a)
    \/ \E a \in AcqIds : page_for_write(a)
    \/ \E p \in PageIds : load_resume(p)
    \/ \E cp \in CurrentPageIds : current_page_delete(cp)
    \/ page_cache_destroy_begin
    \/ page_cache_destroy_finish

Spec == Init /\ [][Next]_vars

\* The cache right after its first call returned a current_page_t: either
\* page_for_block_id of a durable block or page_for_new_block_id.
InitPage ==
    /\ drainer_ = EmptyHeap.drainer_
    /\ cache_ = "alive"
    /\ loads = EmptyHeap.loads
    /\ acqs = EmptyHeap.acqs
    /\ \/ \E block_id \in DurableBlocks :
            /\ current_pages_ = [resize(<<>>, block_id + 1) EXCEPT ![block_id + 1] = 1]
            /\ free_list_ = BlockIds \ DurableBlocks
            /\ cps = [EmptyHeap.cps EXCEPT ![1] = current_page_t_from_block_id(block_id)]
            /\ pages = EmptyHeap.pages
            /\ assoc = [b \in BlockIds |-> IF b = block_id THEN {1} ELSE {}]
            /\ last = CacheCall("page_for_block_id", 1, block_id)
       \/ \E block_id \in BlockIds \ DurableBlocks :
            LET h == current_page_t_from_buf(EmptyHeap, 1, 1)
            IN /\ current_pages_ = <<>>
               /\ free_list_ = (BlockIds \ DurableBlocks) \ {block_id}
               /\ cps = h.cps
               /\ pages = h.pages
               /\ assoc = [b \in BlockIds |-> IF b = block_id THEN {1} ELSE {}]
               /\ last = CacheCall("page_for_new_block_id", 1, block_id)

\* The operations on the current_page_t objects the cache has handed out.
NextPage ==
    \/ \E cp \in CurrentPageIds, access \in alt_access_t : acq_construct(cp, access)
    \/ \E a \in AcqIds : acq_destroy(a)
    \/ \E a \in AcqIds : acq_declare_snapshotted(a)
    \/ \E a \in AcqIds : page_for_read(a)
    \/ \E a \in AcqIds : page_for_write(a)
    \/ \E p \in PageIds : load_resume(p)
    \/ \E cp \in CurrentPageIds : current_page_delete(cp)
    \/ page_cache_destroy_begin
    \/ page_cache_destroy_finish

\* One current_page_t and the acquisitions on it.
SpecPage == InitPage /\ [][NextPage]_vars

\* The acquisition has the access it asked for.
Granted(a) ==
    /\ acqs[a].state = "live"
    /\ acqs[a].read_cond_
    /\ acqs[a].access_ = "write" => acqs[a].write_cond_

\* A caller that has received the access it asked for destroys its
\* acquisition.
acq_release(a) ==
    /\ Granted(a)
    /\ acq_destroy(a)

\* The operations on the acquirer queue and the signals, by callers that hold
\* an acquisition until it is granted. (page_for_read, page_for_write and the
\* load touch neither acquirers_ nor read_cond_ nor write_cond_.)
NextFair ==
    \/ \E cp \in CurrentPageIds, access \in alt_access_t : acq_construct(cp, access)
    \/ \E a \in AcqIds : acq_release(a)
    \/ \E a \in AcqIds : acq_declare_snapshotted(a)

\* One current_page_t whose callers release every granted acquisition.
FairSpecPage ==
    /\ InitPage
    /\ [][NextFair]_vars
    /\ \A a \in AcqIds : WF_vars(acq_release(a))

\* ------------------------------------------------------------ properties
LiveAcqs == {a \in AcqIds : acqs[a].state = "live"}

LivePages == {cp \in CurrentPageIds : cps[cp].state = "live"}

\* Some node ahead of position i in queue q is a write-acquirer.
WriterAhead(q, i) == \E j \in 1..(i - 1) : acqs[q[j]].access_ = "write"

\* C1: after every call, an attached write-mode acquisition has its writable
\* signal set if and only if it is the head of its queue.
C1_WritableIffHead ==
    \A cp \in LivePages :
        LET q == cps[cp].acquirers_
        IN \A i \in 1..Len(q) :
            acqs[q[i]].access_ = "write" => (acqs[q[i]].write_cond_ <=> i = 1)

\* C1 witness: an acquisition ahead of a writer was destroyed, the writer is
\* now the head and writable, and a second writer waits behind it.
C1_Witness ==
    /\ last.op = "acq_destroy"
    /\ last.pos = 1
    /\ last.cp # NULL
    /\ LET q == cps[last.cp].acquirers_
       IN /\ Len(q) >= 2
          /\ acqs[q[1]].access_ = "write" /\ acqs[q[1]].write_cond_
          /\ acqs[q[2]].access_ = "write" /\ ~acqs[q[2]].write_cond_

\* C2: after every call, every attached acquisition with only read-mode
\* acquisitions (or nothing) ahead of it in the queue is readable, the first
\* write-mode acquisition included.
C2_ReadableBehindReaders ==
    \A cp \in LivePages :
        LET q == cps[cp].acquirers_
        IN \A i \in 1..Len(q) : ~WriterAhead(q, i) => acqs[q[i]].read_cond_

\* C2 witness: the writer at the head was destroyed, and behind it a reader
\* and the next writer are attached and readable.
C2_Witness ==
    /\ last.op = "acq_destroy"
    /\ last.access = "write"
    /\ last.pos = 1
    /\ LET q == cps[last.cp].acquirers_
       IN /\ Len(q) = 2
          /\ acqs[q[1]].access_ = "read" /\ acqs[q[1]].read_cond_
          /\ acqs[q[2]].access_ = "write" /\ acqs[q[2]].read_cond_

\* C3: at most one live acquisition of a current page has its writable
\* signal set.
C3_OneWritable ==
    \A cp \in CurrentPageIds :
        Cardinality({a \in LiveAcqs : acqs[a].current_page_ = cp
                                      /\ acqs[a].write_cond_}) <= 1

\* C3 witness: two write-mode acquisitions on one current page, the first
\* one writable.
C3_Witness ==
    \E cp \in LivePages :
        LET q == cps[cp].acquirers_
        IN /\ Len(q) >= 2
           /\ acqs[q[1]].access_ = "write" /\ acqs[q[1]].write_cond_
           /\ acqs[q[2]].access_ = "write"

\* C4: acquisitions are served in arrival order: no attached acquisition
\* behind a write-mode acquisition is readable or writable, and a writer
\* behind readers is readable but not writable while a reader is ahead.
C4_ArrivalOrder ==
    \A cp \in LivePages :
        LET q == cps[cp].acquirers_
        IN \A i \in 1..Len(q) :
            /\ WriterAhead(q, i) =>
                    ~acqs[q[i]].read_cond_ /\ ~acqs[q[i]].write_cond_
            /\ (acqs[q[i]].access_ = "write" /\ i > 1 /\ ~WriterAhead(q, i)) =>
                    acqs[q[i]].read_cond_ /\ ~acqs[q[i]].write_cond_

\* C4 witness: the arrivals R1, W1, R2, all still attached: R1 and W1 are
\* readable, W1 is not writable, R2 is not readable.
C4_Witness ==
    \E cp \in LivePages :
        LET q == cps[cp].acquirers_
        IN /\ last.op = "acq_construct"
           /\ Len(q) = 3
           /\ last.acq = q[3]
           /\ acqs[q[1]].access_ = "read" /\ acqs[q[1]].read_cond_
           /\ acqs[q[2]].access_ = "write" /\ acqs[q[2]].read_cond_
           /\ ~acqs[q[2]].write_cond_
           /\ acqs[q[3]].access_ = "read" /\ ~acqs[q[3]].read_cond_

\* C5: declare_snapshotted on an attached read-mode acquisition that is
\* already readable detaches it before the call returns: it is out of the
\* queue, pinned to the live page, and counted in that page's snapshot
\* reference count.
C5_DeclareDetachesReadable ==
    (last.op = "declare_snapshotted" /\ last.readable /\ last.pos > 0) =>
        LET a == last.acq
            p == acqs[a].snapshotted_page_
        IN /\ acqs[a].current_page_ = NULL
           /\ Index(cps[last.cp].acquirers_, a) = 0
           /\ p # NULL
           /\ p = cps[last.cp].page_
           /\ pages[p].snapshot_refcount_ >= 1

\* C6: a write-mode acquisition added behind nothing but read-mode
\* acquisitions that have declared themselves snapshotted is writable as
\* soon as its construction returns.
C6_SnapshotReadersDoNotBlockWriter ==
    (last.op = "acq_construct" /\ last.access = "write") =>
        LET q == cps[last.cp].acquirers_
            i == Index(q, last.acq)
        IN (\A j \in 1..(i - 1) : /\ acqs[q[j]].access_ = "read"
                                  /\ acqs[q[j]].declared_snapshotted_)
           => acqs[last.acq].write_cond_

\* C7: a page_for_write call made while a page P has snapshot references
\* returns a page other than P, the current page's live page is the page
\* returned, and the handles pinned to P and P itself are left as they were.
C7_CopyOnWrite ==
    [][last'.op = "page_for_write" =>
        /\ cps'[last'.cp].page_ = last'.ret
        /\ \A P \in PageIds :
            pages[P].snapshot_refcount_ > 0 =>
                /\ last'.ret # P
                /\ pages'[P] = pages[P]
                /\ \A a \in Snapshotters(P) : acqs'[a] = acqs[a]]_vars

\* C7 witness: page_for_write returned while a live handle is pinned to the
\* page that was the live page; the page returned is its copy.
C7_Witness ==
    /\ last.op = "page_for_write"
    /\ \E a \in LiveAcqs :
        /\ acqs[a].snapshotted_page_ # NULL
        /\ acqs[a].snapshotted_page_ # last.ret
        /\ pages[acqs[a].snapshotted_page_].snapshot_refcount_ > 0
        /\ pages[last.ret].buf_ = pages[acqs[a].snapshotted_page_].buf_
        /\ pages[last.ret].buf_ # NoBuf

\* C8: every page's snapshot reference count is non-negative and equals the
\* number of live acquisitions pinned to the page, so remove_snapshotter
\* always finds a count above 0.
C8_SnapshotRefcount ==
    /\ \A p \in PageIds :
        /\ pages[p].snapshot_refcount_ >= 0
        /\ pages[p].snapshot_refcount_ = Cardinality(Snapshotters(p))
    /\ \A a \in LiveAcqs :
        acqs[a].snapshotted_page_ # NULL =>
            /\ acqs[a].current_page_ = NULL
            /\ pages[acqs[a].snapshotted_page_].snapshot_refcount_ > 0

\* C8 witness: a detached acquisition was destroyed (remove_snapshotter ran)
\* and another handle is still pinned to a page.
C8_Witness ==
    /\ last.op = "acq_destroy"
    /\ last.pos = 0
    /\ \E p \in PageIds : pages[p].snapshot_refcount_ = 1 /\ Snapshotters(p) # {}

\* C9: at most one current_page_t instance is ever returned by the cache for
\* a block id, over page_for_block_id and page_for_new_block_id calls.
C9_OneCurrentPagePerBlockId ==
    \A b \in BlockIds : Cardinality(assoc[b]) <= 1

\* C10: a load that resumes after its page was destroyed installs nothing:
\* the pages, the current pages, the acquisitions and the cache's table are
\* as they were before it resumed.
C10_CanceledLoadInstallsNothing ==
    [][(last'.op = "load_resume" /\ pages[last'.ret].state = "destroyed") =>
        /\ pages' = pages
        /\ cps' = cps
        /\ acqs' = acqs
        /\ current_pages_' = current_pages_]_vars

\* C10 witness: the load of a destroyed page has resumed and returned, having
\* seen page_destroyed.
C10_Witness ==
    /\ last.op = "load_resume"
    /\ pages[last.ret].state = "destroyed"
    /\ loads[last.ret].pc = "done"
    /\ loads[last.ret].page_destroyed

\* C11: the cache's destructor deletes no registered current page, and does
\* not return, while a load is still running: when it deletes them every
\* load has returned and released its lock on the drainer.
C11_NoDeleteBeforeLoadsFinish ==
    [][(cache_ = "draining"
        /\ (cache_' = "destroyed"
            \/ \E cp \in RegisteredPages : cps'[cp].state # cps[cp].state))
       => \A p \in PageIds : loads[p].pc # "io" /\ ~loads[p].lock]_vars

\* C11 witness: the destructor has begun and waited, the last load has just
\* returned, and every registered current page is still there.
C11_Witness ==
    /\ cache_ = "draining"
    /\ last.op = "load_resume"
    /\ drainer_.locks = 0
    /\ RegisteredPages # {}
    /\ \A cp \in RegisteredPages : cps[cp].state = "live"

C13_AccessGrantedEventually ==
    \A a \in AcqIds :
        (acqs[a].state = "live") ~>
            (/\ acqs[a].state = "live"
             /\ acqs[a].read_cond_
             /\ acqs[a].access_ = "write" => acqs[a].write_cond_)

\* C13 witness: the reader at the head was released, the writer that waited
\* behind it is now writable, and a reader still waits behind the writer.
C13_Witness ==
    /\ last.op = "acq_destroy"
    /\ last.access = "read"
    /\ last.pos = 1
    /\ LET q == cps[last.cp].acquirers_
       IN /\ Len(q) = 2
          /\ acqs[q[1]].access_ = "write" /\ acqs[q[1]].write_cond_
          /\ acqs[q[2]].access_ = "read" /\ ~acqs[q[2]].read_cond_

\* C14: declare_snapshotted is idempotent: after a call the acquisition is
\* declared snapshotted, and a call on an acquisition that is already declared
\* (a second call) changes no queue, signal, attachment or reference count.
C14_DeclareSnapshottedIdempotent ==
    [][\A a \in AcqIds :
        (last'.op = "declare_snapshotted" /\ last'.acq = a) =>
            /\ acqs'[a].declared_snapshotted_
            /\ acqs[a].declared_snapshotted_ =>
                   (cps' = cps /\ pages' = pages /\ loads' = loads /\ acqs' = acqs)]_vars

\* C14 witness: declare_snapshotted was called on an acquisition that an
\* earlier declaration had already detached from its current page.
C14_Witness ==
    /\ last.op = "declare_snapshotted"
    /\ last.cp = NULL
    /\ acqs[last.acq].state = "live"
    /\ acqs[last.acq].declared_snapshotted_
    /\ acqs[last.acq].snapshotted_page_ # NULL

\* The step is a call of remove_acquirer that seeds pulse_pulsables at seed,
\* the successor of the removed acquisition, and pulse_pulsables changes
\* nothing: the queue only loses the removed node, and no other acquisition
\* and no page changes.
RemoveSeedsNoOp(seed_modes) ==
    LET a == last'.acq
        cp == last'.cp
    IN (last'.op = "acq_destroy" /\ cp # NULL /\ last'.pos < Len(cps[cp].acquirers_)) =>
           LET q == cps[cp].acquirers_
               seed == q[last'.pos + 1]
           IN (acqs[seed].read_cond_ /\ acqs[seed].access_ \in seed_modes) =>
                  /\ cps'[cp].acquirers_ = list_remove(q, a)
                  /\ \A b \in AcqIds \ {a} : acqs'[b] = acqs[b]
                  /\ pages' = pages

\* The step is a call of declare_snapshotted on an attached acquisition, which
\* seeds pulse_pulsables at the acquisition itself, and pulse_pulsables changes
\* nothing: only the flag of the acquisition is set.
DeclareSeedsNoOp ==
    LET a == last'.acq
    IN (last'.op = "declare_snapshotted" /\ last'.cp # NULL /\ acqs[a].read_cond_) =>
           /\ cps' = cps
           /\ pages' = pages
           /\ acqs' = [acqs EXCEPT ![a].declared_snapshotted_ = TRUE]

\* C15 as stated: pulse_pulsables seeded at any acquisition whose read_cond_ is
\* already pulsed pulses nothing and detaches nothing.
C15_PulsedSeedNoOp ==
    [][RemoveSeedsNoOp(alt_access_t) /\ DeclareSeedsNoOp]_vars

\* C15 amended: pulse_pulsables seeded at a read-acquirer whose read_cond_ is
\* already pulsed pulses nothing and detaches nothing.
C15_PulsedReadSeedNoOp ==
    [][RemoveSeedsNoOp({"read"}) /\ DeclareSeedsNoOp]_vars

\* C15 witness: a pulsed read-acquirer was removed from in front of another
\* pulsed read-acquirer, which was the seed of the call.
C15_Witness ==
    /\ last.op = "acq_destroy"
    /\ last.cp # NULL
    /\ last.access = "read"
    /\ last.readable
    /\ LET q == cps[last.cp].acquirers_
       IN /\ last.pos <= Len(q)
          /\ acqs[q[last.pos]].access_ = "read"
          /\ acqs[q[last.pos]].read_cond_

\* C16: readers and a writer never share the live page: while a write-mode
\* acquisition has its writable signal set, no other acquisition in the queue
\* of the same current page has its readable signal set.
C16_WriterExcludesReaders ==
    \A cp \in LivePages :
        LET q == cps[cp].acquirers_
        IN \A i, j \in 1..Len(q) :
               (i # j /\ acqs[q[i]].access_ = "write" /\ acqs[q[i]].write_cond_)
                   => ~acqs[q[j]].read_cond_

\* C16 witness: a read-mode acquisition was added behind a writable writer and
\* is not readable.
C16_Witness ==
    /\ last.op = "acq_construct"
    /\ last.access = "read"
    /\ LET q == cps[last.cp].acquirers_
       IN /\ Len(q) = 2
          /\ q[2] = last.acq
          /\ acqs[q[1]].access_ = "write" /\ acqs[q[1]].write_cond_
          /\ ~acqs[q[2]].read_cond_

\* C17: pages are materialized lazily and once. Right after
\* page_for_block_id (or page_for_new_block_id) returned, no load runs and a
\* current page made from a block id has no page; a step spawns a load only
\* if it calls the_page_for_read or the_page_for_write (page_for_read,
\* page_for_write, or pulse_pulsables detaching a snapshotter) on a current
\* page in block-id form that had no page before, it spawns one load, for the
\* page the current page now has; and a current page that has a page never
\* goes back to having none, so no second load is spawned for it.
C17_LazyLoadOnce ==
    /\ [](last.op \in {"page_for_block_id", "page_for_new_block_id"} =>
            /\ drainer_.locks = 0
            /\ \A p \in PageIds : loads[p].pc = "none"
            /\ last.op = "page_for_block_id" =>
                   cps[last.cp].page_ = NULL /\ cps[last.cp].page_cache_)
    /\ [][/\ drainer_'.locks <= drainer_.locks + 1
          /\ drainer_'.locks > drainer_.locks =>
                 /\ last'.op \in {"page_for_read", "page_for_write", "acq_construct",
                                  "acq_destroy", "declare_snapshotted"}
                 /\ \E cp \in LivePages :
                        /\ cps[cp].page_ = NULL
                        /\ cps[cp].page_cache_
                        /\ cps'[cp].page_ # NULL
                        /\ loads'[cps'[cp].page_].pc = "io"
                        /\ \A p \in PageIds \ {cps'[cp].page_} : loads'[p] = loads[p]
          /\ \A cp \in LivePages :
                 (cps[cp].page_ # NULL /\ cps'[cp].state = "live") =>
                     cps'[cp].page_ # NULL]_vars

\* C17 witness: page_for_read was called on a current page whose page had
\* been materialized by an earlier call and whose load has finished; the call
\* returned that page and no load runs.
C17_Witness ==
    /\ last.op = "page_for_read"
    /\ last.cp # NULL
    /\ cps[last.cp].page_ = last.ret
    /\ loads[last.ret].pc = "done"
    /\ drainer_.locks = 0

\* C18: the copy-on-write path never clones a page that is still loading:
\* whenever page_for_write replaces the page of the current page by a copy
\* (the_page_for_write called make_copy), the page it copied had its buffer
\* and its load was over.
C18_NoCopyWhileLoading ==
    [][\A cp \in LivePages :
        (/\ last'.op = "page_for_write"
         /\ last'.cp = cp
         /\ cps[cp].page_ # NULL
         /\ cps'[cp].page_ # cps[cp].page_) =>
            /\ pages[cps[cp].page_].buf_ # NoBuf
            /\ loads[cps[cp].page_].pc # "io"]_vars

\* The live current pages whose queue holds acquisition a.
QueuesOf(a) ==
    {cp \in LivePages : \E i \in 1..Len(cps[cp].acquirers_) : cps[cp].acquirers_[i] = a}

\* C19: every live acquisition is either attached (once in the queue of its
\* current page, in no other queue, without a snapshotted page) or detached
\* (in no queue, without a current page, pinned to a page), never both, so
\* its destructor takes exactly one of its two branches; and every member of
\* a queue is a live acquisition attached to that current page.
C19_AttachedXorDetached ==
    /\ \A a \in LiveAcqs :
        LET attached ==
                /\ acqs[a].current_page_ # NULL
                /\ QueuesOf(a) = {acqs[a].current_page_}
                /\ Cardinality({i \in 1..Len(cps[acqs[a].current_page_].acquirers_) :
                                   cps[acqs[a].current_page_].acquirers_[i] = a}) = 1
                /\ acqs[a].snapshotted_page_ = NULL
            detached ==
                /\ acqs[a].current_page_ = NULL
                /\ QueuesOf(a) = {}
                /\ acqs[a].snapshotted_page_ # NULL
                /\ pages[acqs[a].snapshotted_page_].state = "live"
        IN /\ attached \/ detached
           /\ (acqs[a].current_page_ # NULL) # (acqs[a].snapshotted_page_ # NULL)
    /\ \A cp \in LivePages : \A i \in 1..Len(cps[cp].acquirers_) :
        LET a == cps[cp].acquirers_[i]
        IN /\ acqs[a].state = "live"
           /\ acqs[a].current_page_ = cp
           /\ acqs[a].snapshotted_page_ = NULL

\* C19 witness: an acquisition was destroyed while an attached and a detached
\* acquisition live on.
C19_Witness ==
    /\ last.op = "acq_destroy"
    /\ \E a, b \in LiveAcqs :
        /\ acqs[a].current_page_ # NULL
        /\ acqs[b].current_page_ = NULL
        /\ acqs[b].snapshotted_page_ # NULL

TypeOK ==
    /\ cache_ \in {"alive", "draining", "destroyed"}
    /\ free_list_ \subseteq BlockIds
    /\ drainer_.locks \in 0..MaxPages
    /\ \A cp \in CurrentPageIds :
        /\ cps[cp].state \in {"free", "live", "destroyed"}
        /\ cps[cp].page_ \in PageIds \cup {NULL}
        /\ \A i \in 1..Len(cps[cp].acquirers_) : cps[cp].acquirers_[i] \in AcqIds
    /\ \A p \in PageIds :
        /\ pages[p].state \in {"free", "live", "destroyed"}
        /\ pages[p].snapshot_refcount_ \in Int
        /\ loads[p].pc \in {"none", "io", "done"}
    /\ \A a \in AcqIds :
        /\ acqs[a].state \in {"free", "live"}
        /\ acqs[a].access_ \in alt_access_t
        /\ acqs[a].current_page_ \in CurrentPageIds \cup {NULL}
        /\ acqs[a].snapshotted_page_ \in PageIds \cup {NULL}

====
